---- MODULE Spec2Model ----
(***************************************************************************)
(* A model of the user-account web service: the request handlers of        *)
(* server/Server.js (createUser, logIn, getUser, createAuthToken,          *)
(* checkAuthToken) and the account store UserDatabase (createUser,         *)
(* checkPassword, getUser).                                                *)
(*                                                                         *)
(* Every handler runs its synchronous part in one step; each round trip    *)
(* to the document store and each bcrypt computation is a later step of    *)
(* the same request, so that requests interleave exactly where the         *)
(* promises of the code suspend.  A promise callback and the response it   *)
(* sends run in the step that settles the promise.                         *)
(*                                                                         *)
(* Spec serves the requests one after the other, over every shape of       *)
(* request the handlers tell apart; Race keeps two requests in flight      *)
(* together, over the requests that reach the store; Unindexed is Race     *)
(* against a collection that keeps no key unique.                          *)
(*                                                                         *)
(* Libraries are modelled by their contract:                               *)
(*   - the users collection keeps the _id key unique: insertOne of a       *)
(*     document whose _id is already stored rejects (but in Unindexed);    *)
(*   - bcrypt.hash yields a salted digest, bcrypt.compare recomputes the   *)
(*     digest with the salt of the stored one;                             *)
(*   - a JSON web token carries {id, iat, exp} and a signature over them,  *)
(*     with iat and exp in whole seconds; the clock `now' is that clock.   *)
(***************************************************************************)
EXTENDS Integers, Sequences, FiniteSets, TLC

VARIABLES
    users,      \* the users collection: the stored documents, in insertion order
    now,        \* the clock, in whole seconds
    kept,       \* the issued tokens that clients still hold
    created,    \* history: per id, the password and profile of the request answered CREATED
    req         \* per request slot: the request, where its handler stands, its response

vars == <<users, now, kept, created, req>>

-----------------------------------------------------------------------------
(* Bounds and configuration *)

\* The last second of the clock.
MaxTime == 2

\* How many issued tokens the clients hold on to at a time.
MaxKept == 1

\* Server.authTimeout: the lifetime of a token, in seconds.
authTimeout == 2

\* Status codes.
OK == 200
CREATED == 201
SEE_OTHER == 303
BAD_REQUEST == 400
UNAUTHORIZED == 401
NOT_FOUND == 404
INTERNAL_SERVER_ERROR == 500

authSecret == "superSecretString"

\* The request slots: requests that can be in flight at the same time.
Reqs == {"r1", "r2"}

\* The slot in use when requests are served one at a time.
Serial == {"r1"}

-----------------------------------------------------------------------------
(* JavaScript values *)

Str(s) == [type |-> "string", val |-> s]
Num(s) == [type |-> "number", val |-> s]
undefined == [type |-> "undefined", val |-> ""]

\* An object (a parsed JSON body, a document): a function from its keys to values.
Obj(f) == [type |-> "object", val |-> f]
NoBody == [type |-> "undefined", val |-> <<>>]

\* !v
Falsy(v) ==
    CASE v.type = "undefined" -> TRUE
      [] v.type = "string" -> v.val = ""
      [] v.type = "number" -> v.val = "0"
      [] OTHER -> FALSE

\* typeof v !== "string"
NotString(v) == v.type # "string"

\* decodeURIComponent(v): the argument is converted to a string first, so an
\* absent parameter decodes to the string "undefined"; a string without
\* escapes (the inputs below hold none) decodes to itself.
decodeURIComponent(v) ==
    CASE v.type = "undefined" -> Str("undefined")
      [] OTHER -> v

\* obj.key, undefined when the object has no such key
Get(obj, key) == IF key \in DOMAIN obj.val THEN obj.val[key] ELSE undefined

-----------------------------------------------------------------------------
(* Inputs *)

Ids == {"alice", "bob"}

\* req.params.id as the router binds it: a string.
ParamIds == {Str(i) : i \in Ids} \cup {Str("")}

\* req.query.pw: absent, empty, or a string.
QueryPws == {undefined, Str(""), Str("secret"), Str("hunter2")}

\* Profile payloads of a create-account request.
Profiles ==
    { [k \in {"age"} |-> Num("30")],
      [k \in {"age", "_id", "_pw"} |->
          CASE k = "age" -> Num("31") [] k = "_id" -> Str("x") [] k = "_pw" -> Str("y")] }

CreateBodies == {NoBody} \cup {Obj(p) : p \in Profiles}

\* Bodies of a login request: no body, no pw field, or a pw field.
LogInPws == {Str(""), Str("secret"), Str("hunter2"), Num("123")}
LogInBodies ==
    {NoBody, Obj(<<>>)} \cup {Obj([k \in {"pw"} |-> p]) : p \in LogInPws}

\* The salts bcrypt draws.
Salts == {"s1"}

-----------------------------------------------------------------------------
(* JSON web tokens (jsonwebtoken) *)

\* The signature of payload {id, iat, exp} under a secret.
Signature(secret, id, iat, exp) == <<secret, id, iat, exp>>

\* jwt.sign({id: id}, secret, {expiresIn: expiresIn}) at second t
jwtSign(id, secret, expiresIn, t) ==
    [id |-> id, iat |-> t, exp |-> t + expiresIn,
     sig |-> Signature(secret, id, t, t + expiresIn)]

\* A string that is no token at all ("" is the empty string).
NotAToken(s) == [id |-> s, iat |-> -1, exp |-> -1, sig |-> <<>>]

\* jwt.verify(token, secret, {maxAge: maxAge}) at second t returns the payload;
\* FALSE stands for each error it throws (malformed, invalid signature, expired,
\* maxAge exceeded).
jwtVerify(token, secret, maxAge, t) ==
    /\ token.sig = Signature(secret, token.id, token.iat, token.exp)
    /\ t < token.exp
    /\ t < token.iat + maxAge

\* The token with its payload rewritten to name another id, signature kept.
Tamper(token, id) == [token EXCEPT !.id = id]

-----------------------------------------------------------------------------
(* bcrypt *)

\* bcrypt.hash(password, 10) with the salt it drew
bcryptHash(password, salt) == "$2b$10$" \o salt \o "$" \o password

\* Variant: the password is compared with the digest as it is.
bcryptComparePlain(password, hashed) == password = hashed

\* bcrypt.compare(password, hashed): hashes password with the salt of hashed
bcryptCompare(password, hashed) ==
    \E salt \in Salts : bcryptHash(password, salt) = hashed

-----------------------------------------------------------------------------
(* The users collection (mongodb) *)

\* users.find({_id: id}).toArray()
find(coll, id) == SelectSeq(coll, LAMBDA d : d["_id"] = id)

\* Variant: the collection has no unique index on _id.
DuplicateKeyNever(coll, doc) == FALSE

\* Whether insertOne(doc) meets the unique index on _id.
DuplicateKey(coll, doc) == \E i \in 1..Len(coll) : coll[i]["_id"] = doc["_id"]

\* obj[key] = v
SetField(f, key, v) == [k \in DOMAIN f \cup {key} |-> IF k = key THEN v ELSE f[k]]

\* delete obj[key]
DeleteField(f, key) == [k \in DOMAIN f \ {key} |-> f[k]]

-----------------------------------------------------------------------------
(* Responses *)

NoRes == [code |-> 0, status |-> "", authToken |-> <<>>, json |-> <<>>]

\* res.status(code).send({status: status, info: ...})
Send(code, status) ==
    [code |-> code, status |-> status, authToken |-> <<>>, json |-> <<>>]

\* res.status(code).send({status: status, authToken: token})
SendToken(code, status, token) ==
    [code |-> code, status |-> status, authToken |-> <<token>>, json |-> <<>>]

\* res.json(result)
SendJson(result) ==
    [code |-> OK, status |-> "", authToken |-> <<>>, json |-> <<result>>]

InternalServerError == Send(INTERNAL_SERVER_ERROR, "ERROR_INTERNAL_SERVER_ERROR")

-----------------------------------------------------------------------------
(* Server: tokens *)

\* Server.createAuthToken(id) at second t
createAuthToken(id, t) == jwtSign(id, authSecret, authTimeout, t)

\* Variant: the token is decoded and its expiry read, the signature unchecked.
checkAuthTokenUnverified(authToken, t) == t < authToken.exp

\* Server.checkAuthToken(authToken) at second t
checkAuthToken(authToken, t) == jwtVerify(authToken, authSecret, authTimeout, t)

-----------------------------------------------------------------------------
(* The Authorization header *)

\* req.header("authorization"): absent, or a string; a string is kept as the
\* list split(" ") makes of it: the scheme, then what follows each space.
NoHeader == [present |-> FALSE, scheme |-> "", rest |-> <<>>]
Header(scheme, rest) == [present |-> TRUE, scheme |-> scheme, rest |-> rest]

\* !authValue
NoAuthValue(h) == ~h.present \/ (h.scheme = "" /\ h.rest = <<>>)

toLowerCase(s) ==
    CASE s \in {"Bearer", "BEARER"} -> "bearer"
      [] s = "Basic" -> "basic"
      [] OTHER -> s

\* !authValueSplit[1]
NoTokenValue(h) == Len(h.rest) = 0 \/ h.rest[1] = NotAToken("")

\* Variant: the scheme of the header is not looked at.
HeaderRefusedAnyScheme(h) == NoAuthValue(h) \/ NoTokenValue(h)

\* The check of Server.getUser on the header.
HeaderRefused(h) ==
    NoAuthValue(h) \/ toLowerCase(h.scheme) # "bearer" \/ NoTokenValue(h)

-----------------------------------------------------------------------------
(* Requests *)

\* A free slot.  op names the handler; id, pw, body and header are the request
\* as the router hands it over; pc is where the handler stands ("hung": its
\* promise is never settled, so no callback is left to answer); hashed is the
\* digest the request holds; failed is the store or hashing step that failed
\* ("duplicate": the insert met the unique index).
Idle ==
    [op |-> "", pc |-> "idle", id |-> Str(""), pw |-> undefined, body |-> NoBody,
     header |-> NoHeader, hashed |-> "", failed |-> "none", res |-> NoRes]

\* The handler answers: res is sent and the request is over.
Answer(q, res) == [q EXCEPT !.pc = "done", !.res = res]

\* A store or hashing step failed and the rejection reaches the handler's catch.
Caught(q, step) == [Answer(q, InternalServerError) EXCEPT !.failed = step]

\* A step failed inside a promise executor: the rejection reaches nobody.
Lost(q, step) == [q EXCEPT !.pc = "hung", !.failed = step]

\* The outcomes of a round trip or a computation the code awaits.
Outcomes == {"ok", "error"}

\* A token is issued: the clients hold on to it or not, and may drop others.
Keep(token) == {K \in SUBSET (kept \cup {token}) : Cardinality(K) <= MaxKept}

\* The tokens a client can present: those kept, those with the payload
\* rewritten, one signed with another secret, and text that is no token.
Presentable ==
    kept
    \cup {Tamper(t, i) : t \in kept, i \in Ids}
    \cup {jwtSign("alice", "guess", authTimeout, now)}
    \cup {NotAToken("garbage")}

Headers ==
    {NoHeader, Header("", <<>>), Header("Bearer", <<>>)}
    \cup {Header(s, <<t>>) : s \in {"Bearer", "BEARER", "Basic"}, t \in Presentable}
    \cup {Header("Bearer", <<NotAToken(""), t>>) : t \in kept}

-----------------------------------------------------------------------------
(* Server.createUser and UserDatabase.createUser *)

\* Server.createUser: the request is refused as a bad request.
CreateUserBadRequest(id, password, body) ==
    Falsy(id) \/ Falsy(password) \/ Falsy(body)

\* UserDatabase.createUser: "Invalid parameters"
CreateUserInvalid(id, password, data) ==
    Falsy(id) \/ NotString(id) \/ Falsy(password) \/ NotString(password) \/ Falsy(data)

\* Variant: the document is built from the identifier and the hash alone.
NewUserBare(data, id, hashedPassword) ==
    SetField(SetField(<<>>, "_id", id), "_pw", Str(hashedPassword))

\* The document UserDatabase.createUser inserts: data with _id and _pw set.
NewUser(data, id, hashedPassword) ==
    SetField(SetField(data, "_id", id), "_pw", Str(hashedPassword))

\* The synchronous part of the handler, up to the find it issues.
CreateUser(r, id0, pw0, body) ==
    /\ req[r].pc = "idle"
    /\ LET id == decodeURIComponent(id0)
           password == decodeURIComponent(pw0)
           q == [Idle EXCEPT !.op = "createUser", !.id = id0, !.pw = pw0, !.body = body]
       IN  req' = [req EXCEPT ![r] =
               IF CreateUserBadRequest(id, password, body)
               THEN Answer(q, Send(BAD_REQUEST, "ERROR_BAD_REQUEST"))
               ELSE IF CreateUserInvalid(id, password, body)
               THEN Answer(q, InternalServerError)
               ELSE [q EXCEPT !.pc = "createFind"]]
    /\ UNCHANGED <<users, now, kept, created>>

\* Variant: the tests on docs.length exchanged.
CreateUserFoundSwapped(q, docs) ==
    IF Len(docs) = 0
    THEN Answer(q, Send(SEE_OTHER, "EXISTS"))
    ELSE IF Len(docs) = 1
    THEN [q EXCEPT !.pc = "createHash"]
    ELSE Caught(q, "integrity")

\* What UserDatabase.createUser does with the documents found.
CreateUserFound(q, docs) ==
    IF Len(docs) = 1
    THEN Answer(q, Send(SEE_OTHER, "EXISTS"))
    ELSE IF Len(docs) = 0
    THEN [q EXCEPT !.pc = "createHash"]
    ELSE Caught(q, "integrity")

\* users.find({_id: id}).toArray() settles.
CreateUserFind(r, outcome) ==
    /\ req[r].pc = "createFind"
    /\ req' = [req EXCEPT ![r] =
           IF outcome = "error"
           THEN Caught(req[r], "find")
           ELSE CreateUserFound(req[r], find(users, decodeURIComponent(req[r].id)))]
    /\ UNCHANGED <<users, now, kept, created>>

\* bcrypt.hash(password, 10) settles; on success insertOne is issued.
CreateUserHash(r, outcome, salt) ==
    /\ req[r].pc = "createHash"
    /\ req' = [req EXCEPT ![r] =
           IF outcome = "error"
           THEN Lost(req[r], "hash")
           ELSE [req[r] EXCEPT
                    !.pc = "createInsert",
                    !.hashed = bcryptHash(decodeURIComponent(req[r].pw).val, salt)]]
    /\ UNCHANGED <<users, now, kept, created>>

\* Variant: an insert the unique index rejects is taken for an insert done.
CreateUserInsertRejectionTaken(r, outcome) ==
    /\ req[r].pc = "createInsert"
    /\ LET id == decodeURIComponent(req[r].id)
           data == NewUser(req[r].body.val, id, req[r].hashed)
           token == createAuthToken(id.val, now)
       IN  IF DuplicateKey(users, data)
           THEN /\ req' = [req EXCEPT ![r] =
                       Answer(req[r], SendToken(CREATED, "CREATED", token))]
                /\ kept' \in Keep(token)
                /\ UNCHANGED <<users, created>>
           ELSE IF outcome = "error"
           THEN /\ req' = [req EXCEPT ![r] = Lost(req[r], "insert")]
                /\ UNCHANGED <<users, kept, created>>
           ELSE IF outcome = "miscount"
           THEN /\ req' = [req EXCEPT ![r] = Caught(req[r], "insert")]
                /\ UNCHANGED <<users, kept, created>>
           ELSE /\ users' = Append(users, data)
                /\ kept' \in Keep(token)
                /\ created' = [created EXCEPT ![id.val] =
                       <<[password |-> decodeURIComponent(req[r].pw).val,
                          profile |-> req[r].body.val]>>]
                /\ req' = [req EXCEPT ![r] =
                       Answer(req[r], SendToken(CREATED, "CREATED", token))]
    /\ UNCHANGED now

\* Variant: a document is stored also when insertedCount is not 1.
CreateUserInsertMiscounted(r, outcome) ==
    /\ req[r].pc = "createInsert"
    /\ LET id == decodeURIComponent(req[r].id)
           data == NewUser(req[r].body.val, id, req[r].hashed)
           token == createAuthToken(id.val, now)
       IN  IF DuplicateKey(users, data)
           THEN /\ req' = [req EXCEPT ![r] = Lost(req[r], "duplicate")]
                /\ UNCHANGED <<users, kept, created>>
           ELSE IF outcome = "error"
           THEN /\ req' = [req EXCEPT ![r] = Lost(req[r], "insert")]
                /\ UNCHANGED <<users, kept, created>>
           ELSE IF outcome = "miscount"
           THEN /\ req' = [req EXCEPT ![r] = Caught(req[r], "insert")]
                /\ users' = Append(users, data)
                /\ UNCHANGED <<kept, created>>
           ELSE /\ users' = Append(users, data)
                /\ kept' \in Keep(token)
                /\ created' = [created EXCEPT ![id.val] =
                       <<[password |-> decodeURIComponent(req[r].pw).val,
                          profile |-> req[r].body.val]>>]
                /\ req' = [req EXCEPT ![r] =
                       Answer(req[r], SendToken(CREATED, "CREATED", token))]
    /\ UNCHANGED now

\* users.insertOne(data) settles: rejected (an error, or the _id is taken),
\* resolved with insertedCount other than 1, or resolved with the document stored.
CreateUserInsert(r, outcome) ==
    /\ req[r].pc = "createInsert"
    /\ LET id == decodeURIComponent(req[r].id)
           data == NewUser(req[r].body.val, id, req[r].hashed)
           token == createAuthToken(id.val, now)
       IN  IF DuplicateKey(users, data)
           THEN /\ req' = [req EXCEPT ![r] = Lost(req[r], "duplicate")]
                /\ UNCHANGED <<users, kept, created>>
           ELSE IF outcome = "error"
           THEN /\ req' = [req EXCEPT ![r] = Lost(req[r], "insert")]
                /\ UNCHANGED <<users, kept, created>>
           ELSE IF outcome = "miscount"
           THEN /\ req' = [req EXCEPT ![r] = Caught(req[r], "insert")]
                /\ UNCHANGED <<users, kept, created>>
           ELSE /\ users' = Append(users, data)
                /\ kept' \in Keep(token)
                /\ created' = [created EXCEPT ![id.val] =
                       <<[password |-> decodeURIComponent(req[r].pw).val,
                          profile |-> req[r].body.val]>>]
                /\ req' = [req EXCEPT ![r] =
                       Answer(req[r], SendToken(CREATED, "CREATED", token))]
    /\ UNCHANGED now

-----------------------------------------------------------------------------
(* Server.logIn and UserDatabase.checkPassword *)

\* UserDatabase.checkPassword: "Invalid parameters"
CheckPasswordInvalid(id, password) ==
    Falsy(id) \/ NotString(id) \/ Falsy(password) \/ NotString(password)

\* The synchronous part of Server.logIn, up to the find it issues.
LogInStart(q, id, body) ==
    IF Falsy(id) \/ Falsy(body)
    THEN Answer(q, Send(BAD_REQUEST, "ERROR_BAD_REQUEST"))
    ELSE IF Falsy(Get(body, "pw"))
    THEN Answer(q, Send(UNAUTHORIZED, "ERROR_UNAUTHORIZED"))
    ELSE IF CheckPasswordInvalid(id, Get(body, "pw"))
    THEN Answer(q, InternalServerError)
    ELSE [q EXCEPT !.pc = "logInFind"]

LogIn(r, id0, body) ==
    /\ req[r].pc = "idle"
    /\ req' = [req EXCEPT ![r] =
           LogInStart([Idle EXCEPT !.op = "logIn", !.id = id0, !.body = body],
                      decodeURIComponent(id0), body)]
    /\ UNCHANGED <<users, now, kept, created>>

\* Variant: the first of the documents found is taken, however many there are.
CheckPasswordFoundFirst(q, docs) ==
    IF Len(docs) >= 1
    THEN [q EXCEPT !.pc = "logInCompare", !.hashed = docs[1]["_pw"].val]
    ELSE Answer(q, Send(NOT_FOUND, "ERROR_NOT_FOUND"))

\* What UserDatabase.checkPassword does with the documents found.
CheckPasswordFound(q, docs) ==
    IF Len(docs) = 1
    THEN [q EXCEPT !.pc = "logInCompare", !.hashed = docs[1]["_pw"].val]
    ELSE IF Len(docs) = 0
    THEN Answer(q, Send(NOT_FOUND, "ERROR_NOT_FOUND"))
    ELSE Caught(q, "integrity")

\* users.find({_id: id}).toArray() settles.
LogInFind(r, outcome) ==
    /\ req[r].pc = "logInFind"
    /\ req' = [req EXCEPT ![r] =
           IF outcome = "error"
           THEN Caught(req[r], "find")
           ELSE CheckPasswordFound(req[r], find(users, decodeURIComponent(req[r].id)))]
    /\ UNCHANGED <<users, now, kept, created>>

\* Variant: a token is minted before the result of the comparison is looked at.
LogInResultTokenFirst(result, token) ==
    IF result
    THEN SendToken(OK, "OK", token)
    ELSE SendToken(UNAUTHORIZED, "ERROR_UNAUTHORIZED", token)

\* The response of Server.logIn to the result of bcrypt.compare.
LogInResult(result, token) ==
    IF result
    THEN SendToken(OK, "OK", token)
    ELSE Send(UNAUTHORIZED, "ERROR_UNAUTHORIZED")

\* bcrypt.compare(password, hashedPassword) settles.
LogInCompare(r, outcome) ==
    /\ req[r].pc = "logInCompare"
    /\ LET id == decodeURIComponent(req[r].id)
           result == bcryptCompare(Get(req[r].body, "pw").val, req[r].hashed)
           token == createAuthToken(id.val, now)
       IN  /\ req' = [req EXCEPT ![r] =
                  IF outcome = "error"
                  THEN Lost(req[r], "compare")
                  ELSE Answer(req[r], LogInResult(result, token))]
           /\ kept' \in IF outcome = "ok" /\ result THEN Keep(token) ELSE {kept}
    /\ UNCHANGED <<users, now, created>>

-----------------------------------------------------------------------------
(* Server.getUser and UserDatabase.getUser *)

\* UserDatabase.getUser: "Invalid parameters"
GetUserInvalid(id) == Falsy(id) \/ NotString(id)

\* Variant: the handler also requires the token to name the requested id.
AuthorizedSubject(id, header, t) ==
    /\ ~HeaderRefused(header)
    /\ checkAuthToken(header.rest[1], t)
    /\ header.rest[1].id = id.val

\* Whether Server.getUser lets the request through to the store.
Authorized(id, header, t) ==
    /\ ~HeaderRefused(header)
    /\ checkAuthToken(header.rest[1], t)

\* The synchronous part of Server.getUser, up to the find it issues.
GetUserStart(q, id, header, t) ==
    IF Falsy(id)
    THEN Answer(q, Send(BAD_REQUEST, "ERROR_BAD_REQUEST"))
    ELSE IF ~Authorized(id, header, t)
    THEN Answer(q, Send(UNAUTHORIZED, "ERROR_UNAUTHORIZED"))
    ELSE IF GetUserInvalid(id)
    THEN Answer(q, InternalServerError)
    ELSE [q EXCEPT !.pc = "getUserFind"]

GetUser(r, id0, header) ==
    /\ req[r].pc = "idle"
    /\ req' = [req EXCEPT ![r] =
           GetUserStart([Idle EXCEPT !.op = "getUser", !.id = id0, !.header = header],
                        decodeURIComponent(id0), header, now)]
    /\ UNCHANGED <<users, now, kept, created>>

\* Variant: only the identifier is deleted.
ProfileWithHash(doc) == DeleteField(doc, "_id")

\* What UserDatabase.getUser resolves with for the one document found.
Profile(doc) == DeleteField(DeleteField(doc, "_id"), "_pw")

\* What UserDatabase.getUser and the handler do with the documents found.
GetUserFound(q, docs) ==
    IF Len(docs) = 1
    THEN Answer(q, SendJson(Profile(docs[1])))
    ELSE IF Len(docs) = 0
    THEN Answer(q, Send(NOT_FOUND, "ERROR_NOT_FOUND"))
    ELSE Caught(q, "integrity")

\* Variant: find hands out the stored documents themselves, so that the two
\* deletes of UserDatabase.getUser reach the collection.
GetUserFindShared(r, outcome) ==
    /\ req[r].pc = "getUserFind"
    /\ LET id == decodeURIComponent(req[r].id)
           docs == find(users, id)
       IN  /\ req' = [req EXCEPT ![r] =
                  IF outcome = "error"
                  THEN Caught(req[r], "find")
                  ELSE GetUserFound(req[r], docs)]
           /\ users' =
                  IF outcome = "ok" /\ Len(docs) = 1
                  THEN [i \in 1..Len(users) |->
                           IF users[i]["_id"] = id THEN Profile(users[i]) ELSE users[i]]
                  ELSE users
    /\ UNCHANGED <<now, kept, created>>

\* users.find({_id: id}).toArray() settles.
GetUserFind(r, outcome) ==
    /\ req[r].pc = "getUserFind"
    /\ req' = [req EXCEPT ![r] =
           IF outcome = "error"
           THEN Caught(req[r], "find")
           ELSE GetUserFound(req[r], find(users, decodeURIComponent(req[r].id)))]
    /\ UNCHANGED <<users, now, kept, created>>

-----------------------------------------------------------------------------
(* The environment *)

\* A second passes.
Tick ==
    /\ now < MaxTime
    /\ now' = now + 1
    /\ UNCHANGED <<users, kept, created, req>>

\* A request that is over, or that nothing will answer, leaves its slot.
Forget(r) ==
    /\ req[r].pc \in {"done", "hung"}
    /\ req' = [req EXCEPT ![r] = Idle]
    /\ UNCHANGED <<users, now, kept, created>>

-----------------------------------------------------------------------------
(* The specification *)

Init ==
    /\ users = <<>>
    /\ now = 0
    /\ kept = {}
    /\ created = [i \in Ids |-> <<>>]
    /\ req = [r \in Reqs |-> Idle]

Next ==
    \/ \E r \in Serial, id0 \in ParamIds, pw0 \in QueryPws, body \in CreateBodies :
           CreateUser(r, id0, pw0, body)
    \/ \E r \in Serial, outcome \in Outcomes : CreateUserFind(r, outcome)
    \/ \E r \in Serial, outcome \in Outcomes, salt \in Salts : CreateUserHash(r, outcome, salt)
    \/ \E r \in Serial, outcome \in Outcomes \cup {"miscount"} : CreateUserInsert(r, outcome)
    \/ \E r \in Serial, id0 \in ParamIds, body \in LogInBodies : LogIn(r, id0, body)
    \/ \E r \in Serial, outcome \in Outcomes : LogInFind(r, outcome)
    \/ \E r \in Serial, outcome \in Outcomes : LogInCompare(r, outcome)
    \/ \E r \in Serial, id0 \in ParamIds, header \in Headers : GetUser(r, id0, header)
    \/ \E r \in Serial, outcome \in Outcomes : GetUserFind(r, outcome)
    \/ Tick
    \/ \E r \in Serial : Forget(r)

Spec == Init /\ [][Next]_vars

-----------------------------------------------------------------------------
(* Requests in flight together *)

\* Two requests at a time, each step of one interleaved with the steps of the
\* other, over one id and the requests that reach the store.
RaceIds == {Str("alice")}
RacePws == {Str("secret"), Str("hunter2")}
RaceBodies == {Obj(p) : p \in {q \in Profiles : DOMAIN q = {"age"}}}
RaceLogIns == {Obj([k \in {"pw"} |-> Str("secret")])}
RaceHeaders == {Header("Bearer", <<t>>) : t \in kept}

RaceNext ==
    \/ \E r \in Reqs, id0 \in RaceIds, pw0 \in RacePws, body \in RaceBodies :
           CreateUser(r, id0, pw0, body)
    \/ \E r \in Reqs, outcome \in Outcomes : CreateUserFind(r, outcome)
    \/ \E r \in Reqs, outcome \in Outcomes, salt \in Salts : CreateUserHash(r, outcome, salt)
    \/ \E r \in Reqs, outcome \in Outcomes \cup {"miscount"} : CreateUserInsert(r, outcome)
    \/ \E r \in Reqs, id0 \in RaceIds, body \in RaceLogIns : LogIn(r, id0, body)
    \/ \E r \in Reqs, outcome \in Outcomes : LogInFind(r, outcome)
    \/ \E r \in Reqs, outcome \in Outcomes : LogInCompare(r, outcome)
    \/ \E r \in Reqs, id0 \in RaceIds, header \in RaceHeaders : GetUser(r, id0, header)
    \/ \E r \in Reqs, outcome \in Outcomes : GetUserFind(r, outcome)
    \/ Tick
    \/ \E r \in Reqs : Forget(r)

Race == Init /\ [][RaceNext]_vars

-----------------------------------------------------------------------------
(* Requests in flight together, the collection keeping no key unique *)

\* users.insertOne(data) settles against a collection that stores whatever it
\* is given: rejected for an error, resolved with insertedCount other than 1,
\* or resolved with the document stored, another with the same _id or not.
CreateUserInsertUnindexed(r, outcome) ==
    /\ req[r].pc = "createInsert"
    /\ LET id == decodeURIComponent(req[r].id)
           data == NewUser(req[r].body.val, id, req[r].hashed)
           token == createAuthToken(id.val, now)
       IN  IF outcome = "error"
           THEN /\ req' = [req EXCEPT ![r] = Lost(req[r], "insert")]
                /\ UNCHANGED <<users, kept, created>>
           ELSE IF outcome = "miscount"
           THEN /\ req' = [req EXCEPT ![r] = Caught(req[r], "insert")]
                /\ UNCHANGED <<users, kept, created>>
           ELSE /\ users' = Append(users, data)
                /\ kept' \in Keep(token)
                /\ created' = [created EXCEPT ![id.val] =
                       <<[password |-> decodeURIComponent(req[r].pw).val,
                          profile |-> req[r].body.val]>>]
                /\ req' = [req EXCEPT ![r] =
                       Answer(req[r], SendToken(CREATED, "CREATED", token))]
    /\ UNCHANGED now

UnindexedNext ==
    \/ \E r \in Reqs, id0 \in RaceIds, pw0 \in RacePws, body \in RaceBodies :
           CreateUser(r, id0, pw0, body)
    \/ \E r \in Reqs, outcome \in Outcomes : CreateUserFind(r, outcome)
    \/ \E r \in Reqs, outcome \in Outcomes, salt \in Salts : CreateUserHash(r, outcome, salt)
    \/ \E r \in Reqs, outcome \in Outcomes \cup {"miscount"} :
           CreateUserInsertUnindexed(r, outcome)
    \/ \E r \in Reqs, id0 \in RaceIds, body \in RaceLogIns : LogIn(r, id0, body)
    \/ \E r \in Reqs, outcome \in Outcomes : LogInFind(r, outcome)
    \/ \E r \in Reqs, outcome \in Outcomes : LogInCompare(r, outcome)
    \/ \E r \in Reqs, id0 \in RaceIds, header \in RaceHeaders : GetUser(r, id0, header)
    \/ \E r \in Reqs, outcome \in Outcomes : GetUserFind(r, outcome)
    \/ Tick
    \/ \E r \in Reqs : Forget(r)

Unindexed == Init /\ [][UnindexedNext]_vars

-----------------------------------------------------------------------------
(* Vocabulary of the properties *)

\* Request slot r starts handler op in this step.
Begins(r, op) == req[r].pc = "idle" /\ req'[r].op = op

\* Request slot r is answered in this step, no store or hashing step having failed.
Answered(r, op) ==
    /\ req[r].op = op
    /\ req[r].pc \notin {"idle", "done", "hung"}
    /\ req'[r].pc = "done"
    /\ req'[r].failed = "none"

\* Request slot r holds an answered request of handler op, no step having failed.
Served(r, op) == req[r].op = op /\ req[r].pc = "done" /\ req[r].failed = "none"

\* token was minted for some account and is within its lifetime at second t.
Genuine(token, t) ==
    \E a \in Ids, t0 \in 0..t :
        token = createAuthToken(a, t0) /\ t < t0 + authTimeout

\* token carries the handler's signature over some payload.
Signed(token) ==
    \E a \in Ids, t0 \in 0..MaxTime : token.sig = createAuthToken(a, t0).sig

\* The stored documents of id.
Records(id) == {i \in 1..Len(users) : users[i]["_id"] = Str(id)}

\* A map without the reserved keys.
Unreserved(f) == [k \in DOMAIN f \ {"_id", "_pw"} |-> f[k]]

-----------------------------------------------------------------------------
(* C1 *)

\* C1: the outcome of fetch-profile does not depend on the subject of the token:
\* a request for id B that presents "Bearer <token>", the token minted for any
\* account A and within its lifetime, goes on to the store, and what the store
\* finds alone decides the answer: 200 with B's stored profile when B has a
\* record, 404 when it has none.
C1_SubjectNotChecked ==
    [][\A r \in Reqs :
        /\ ( /\ Begins(r, "getUser")
             /\ req'[r].id.val \in Ids
             /\ req'[r].header.present
             /\ req'[r].header.scheme = "Bearer"
             /\ Len(req'[r].header.rest) = 1
             /\ Genuine(req'[r].header.rest[1], now) )
           => req'[r].pc = "getUserFind"
        /\ Answered(r, "getUser")
           => req'[r].res =
                 IF Records(req[r].id.val) # {}
                 THEN SendJson(Unreserved(users[CHOOSE i \in Records(req[r].id.val) : TRUE]))
                 ELSE Send(NOT_FOUND, "ERROR_NOT_FOUND")
      ]_vars

\* A token minted for one account has fetched the profile of another.
C1_Witness ==
    \E r \in Reqs :
        /\ Served(r, "getUser")
        /\ req[r].res.code = OK
        /\ Signed(req[r].header.rest[1])
        /\ req[r].header.rest[1].id # req[r].id.val
        /\ req[r].header.rest[1].id \in Ids

-----------------------------------------------------------------------------
(* C2 *)

\* The token with its payload signed under another secret.
Resigned(token, secret) ==
    [token EXCEPT !.sig = Signature(secret, token.id, token.iat, token.exp)]

\* C2: a token returned by createAuthToken(id) at second t names id, is accepted
\* by checkAuthToken at every second t' with t <= t' < t + authTimeout and
\* rejected at every second t' >= t + authTimeout; the same payload signed with
\* another secret is rejected at every second.
C2_TokenWindow ==
    [][\A r \in Reqs :
        (req[r].pc # "done" /\ req'[r].pc = "done" /\ req'[r].res.authToken # <<>>)
        => LET token == req'[r].res.authToken[1]
           IN  /\ token.id = req'[r].id.val
               /\ \A t2 \in now..(MaxTime + authTimeout) :
                      checkAuthToken(token, t2) <=> t2 < now + authTimeout
               /\ \A t2 \in 0..(MaxTime + authTimeout) :
                      ~checkAuthToken(Resigned(token, "guess"), t2)
      ]_vars

\* A token a client kept has outlived authTimeout and fetch-profile refused it.
C2_Witness ==
    \E r \in Reqs, token \in kept :
        /\ Served(r, "getUser")
        /\ req[r].header = Header("Bearer", <<token>>)
        /\ req[r].res.code = UNAUTHORIZED
        /\ now >= token.iat + authTimeout

-----------------------------------------------------------------------------
(* C3, C4 *)

\* C3: of the create-account calls for one id, each started after the one before
\* completed, the first yields Created (201) and every later one AlreadyExists
\* (303) and leaves the store as it was; afterwards verifyCredentials(id, p)
\* yields Valid (200) exactly when p is the password of the first call, and
\* Invalid (401) for every other password.
C3_SecondCreateRefused ==
    [][\A r \in Reqs :
        /\ Answered(r, "createUser")
           => LET id == req[r].id.val
              IN  IF created[id] = <<>>
                  THEN /\ req'[r].res.code = CREATED
                       /\ created'[id] =
                              <<[password |-> decodeURIComponent(req[r].pw).val,
                                 profile |-> req[r].body.val]>>
                  ELSE /\ req'[r].res.code = SEE_OTHER
                       /\ users' = users
                       /\ created' = created
        /\ (Answered(r, "logIn") /\ created[req[r].id.val] # <<>>)
           => LET p == Get(req[r].body, "pw").val
                  p1 == created[req[r].id.val][1].password
              IN  /\ req'[r].res.code = OK <=> p = p1
                  /\ req'[r].res.code = UNAUTHORIZED <=> p # p1
      ]_vars

\* A second create-account call with another password was answered 303 and the
\* stored hash is still that of the first call's password.
C3_Witness ==
    \E r \in Reqs :
        /\ Served(r, "createUser")
        /\ req[r].res.code = SEE_OTHER
        /\ created[req[r].id.val] # <<>>
        /\ decodeURIComponent(req[r].pw).val # created[req[r].id.val][1].password
        /\ \A i \in Records(req[r].id.val) :
               bcryptCompare(created[req[r].id.val][1].password, users[i]["_pw"].val)

\* C4: once createAccount(id, password, profile) has returned Created,
\* verifyCredentials(id, password) yields Valid: the login is answered 200 with
\* a token for id.
C4_CreateThenVerify ==
    \A r \in Reqs :
        ( /\ Served(r, "logIn")
          /\ req[r].id.val \in Ids
          /\ created[req[r].id.val] # <<>>
          /\ Get(req[r].body, "pw") = Str(created[req[r].id.val][1].password) )
        => /\ req[r].res.code = OK
           /\ Len(req[r].res.authToken) = 1
           /\ req[r].res.authToken[1].id = req[r].id.val

\* A login with the password of the creation was answered 200.
C4_Witness ==
    \E r \in Reqs :
        /\ Served(r, "logIn")
        /\ req[r].id.val \in Ids
        /\ created[req[r].id.val] # <<>>
        /\ Get(req[r].body, "pw") = Str(created[req[r].id.val][1].password)
        /\ req[r].res.code = OK

-----------------------------------------------------------------------------
(* C5 *)

\* C5: the status of a login, no store or hashing step having failed, is 400
\* when the id or the body is missing; otherwise 401 when the body holds no
\* (or an empty) pw; otherwise 404 when the store has no record for id, 401
\* when it has one and the password is not that of the record, 200 with a
\* token for id when it is; and a token is returned in the last case alone.
C5_LogInOrder ==
    \A r \in Reqs :
        Served(r, "logIn")
        => LET id == req[r].id.val
               pw == Get(req[r].body, "pw")
               res == req[r].res
           IN  IF id = "" \/ req[r].body = NoBody
               THEN res.code = BAD_REQUEST /\ res.authToken = <<>>
               ELSE IF pw = undefined \/ pw = Str("")
               THEN res.code = UNAUTHORIZED /\ res.authToken = <<>>
               ELSE IF Records(id) = {}
               THEN res.code = NOT_FOUND /\ res.authToken = <<>>
               ELSE IF pw # Str(created[id][1].password)
               THEN res.code = UNAUTHORIZED /\ res.authToken = <<>>
               ELSE /\ res.code = OK
                    /\ Len(res.authToken) = 1
                    /\ res.authToken[1].id = id

-----------------------------------------------------------------------------
(* C6 *)

\* The header or its token is one fetch-profile must refuse at second t: the
\* header is absent or empty, names another scheme than Bearer, holds no token
\* value, or holds a token that was not minted or has outlived authTimeout.
BadCredentials(h, t) ==
    \/ ~h.present
    \/ h = Header("", <<>>)
    \/ h.scheme \notin {"Bearer", "bearer", "BEARER"}
    \/ h.rest = <<>>
    \/ ~Genuine(h.rest[1], t)

\* C6: a fetch-profile request with a non-empty id and such credentials is
\* answered 401 in the step that receives it, whatever the store holds: the
\* handler issues no find, and the store is left as it was.
C6_BadCredentialsRefused ==
    [][\A r \in Reqs :
        ( /\ Begins(r, "getUser")
          /\ req'[r].id.val # ""
          /\ BadCredentials(req'[r].header, now) )
        => /\ req'[r].pc = "done"
           /\ req'[r].res = Send(UNAUTHORIZED, "ERROR_UNAUTHORIZED")
           /\ users' = users
      ]_vars

\* A token whose payload was rewritten to name an existing account was refused.
C6_Witness ==
    \E r \in Reqs, token \in kept :
        /\ Served(r, "getUser")
        /\ req[r].header = Header("Bearer", <<Tamper(token, req[r].id.val)>>)
        /\ token.id # req[r].id.val
        /\ Records(req[r].id.val) # {}
        /\ req[r].res.code = UNAUTHORIZED

-----------------------------------------------------------------------------
(* C7 *)

\* The password hashes in the store.
StoredHashes == {users[i]["_pw"] : i \in 1..Len(users)}

\* C7: the profile a fetch-profile response carries has neither an _id nor a
\* _pw field, and no field of it is a stored password hash; the other responses
\* carry a status and at most a token, and a token holds no stored hash.
C7_NoCredentialsLeave ==
    \A r \in Reqs :
        /\ \A i \in 1..Len(req[r].res.json) :
               /\ "_id" \notin DOMAIN req[r].res.json[i]
               /\ "_pw" \notin DOMAIN req[r].res.json[i]
               /\ \A k \in DOMAIN req[r].res.json[i] :
                      req[r].res.json[i][k] \notin StoredHashes
        /\ \A i \in 1..Len(req[r].res.authToken) :
               Str(req[r].res.authToken[i].id) \notin StoredHashes
        /\ Str(req[r].res.status) \notin StoredHashes

\* A profile that was created with _id and _pw fields of its own was fetched.
C7_Witness ==
    \E r \in Reqs :
        /\ Served(r, "getUser")
        /\ req[r].res.code = OK
        /\ Len(req[r].res.json) = 1
        /\ created[req[r].id.val] # <<>>
        /\ "_pw" \in DOMAIN created[req[r].id.val][1].profile

-----------------------------------------------------------------------------
(* C8 *)

\* C8 as stated: a fetch-profile answered 200 carries the profile the account
\* was created with, the same fields with the same values, also when that
\* profile has fields named _id or _pw.
C8_ProfileEchoed ==
    \A r \in Reqs :
        (Served(r, "getUser") /\ req[r].res.code = OK)
        => req[r].res.json = <<created[req[r].id.val][1].profile>>

\* C8 as amended: a fetch-profile answered 200 carries the profile the account
\* was created with, less its fields named _id and _pw: the same fields with the
\* same values when the profile has no such field.
C8_ProfileEchoedLessReserved ==
    \A r \in Reqs :
        (Served(r, "getUser") /\ req[r].res.code = OK)
        => LET profile == created[req[r].id.val][1].profile
           IN  /\ req[r].res.json = <<Unreserved(profile)>>
               /\ DOMAIN profile \cap {"_id", "_pw"} = {}
                  => req[r].res.json = <<profile>>

\* A profile created with fields named _id and _pw was fetched, and its other
\* field came back.
C8_Witness ==
    \E r \in Reqs :
        /\ Served(r, "getUser")
        /\ req[r].res.code = OK
        /\ "_id" \in DOMAIN created[req[r].id.val][1].profile
        /\ req[r].res.json[1]["age"] = Num("31")

-----------------------------------------------------------------------------
(* C9 *)

\* C9: a create-account request whose id is empty, whose pw parameter is
\* missing or empty, or whose body is missing is answered 400 on receipt (and
\* so calls no store operation and creates no record).
C9_CreateBadRequest ==
    \A r \in Reqs :
        ( /\ req[r].op = "createUser"
          /\ \/ req[r].id.val = ""
             \/ req[r].pw = undefined
             \/ req[r].pw = Str("")
             \/ req[r].body = NoBody )
        => /\ req[r].pc = "done"
           /\ req[r].res.code = BAD_REQUEST

-----------------------------------------------------------------------------
(* C10 *)

\* C10: a request one of whose store or hashing steps failed (find, hash,
\* compare, insert, the integrity check) is answered with the generic 500.
\* A request at "hung" has no callback left that could answer it.
C10_FailureAnswered ==
    \A r \in Reqs :
        req[r].failed # "none"
        => /\ req[r].pc = "done"
           /\ req[r].res = InternalServerError

-----------------------------------------------------------------------------
(* C11, C12 *)

\* Request slot r holds a create-account request that found no record for its
\* id and went on to hash and insert.
Raced(r) == req[r].op = "createUser" /\ req[r].hashed # ""

\* C11: of two create-account requests for the same unused id that both found
\* no record before either inserted, the insert of neither having failed for
\* another reason than the key being taken, one is answered 201 and the other
\* 303: once both are over, neither is unanswered and neither was sent 500.
C11_RaceAnswered ==
    \A r1, r2 \in Reqs :
        ( /\ r1 # r2
          /\ Raced(r1) /\ Raced(r2)
          /\ req[r1].id = req[r2].id
          /\ req[r1].pc \in {"done", "hung"}
          /\ req[r2].pc \in {"done", "hung"}
          /\ req[r1].failed \in {"none", "duplicate"}
          /\ req[r2].failed \in {"none", "duplicate"} )
        => /\ req[r1].pc = "done" /\ req[r2].pc = "done"
           /\ {req[r1].res.code, req[r2].res.code} = {CREATED, SEE_OTHER}

\* C12: the collection holds at most one document per id, whatever the order
\* in which the find, hash and insert steps of the requests in flight run.
C12_OneRecordPerId ==
    \A id \in Ids : Cardinality(Records(id)) <= 1

\* Two create-account requests both found no record; one has inserted, the
\* insert of the other met the unique index, and one record is stored.
C12_Witness ==
    \E r1, r2 \in Reqs :
        /\ r1 # r2
        /\ Raced(r1) /\ Raced(r2)
        /\ req[r1].id = req[r2].id
        /\ req[r1].res.code = CREATED
        /\ req[r2].failed = "duplicate"
        /\ Cardinality(Records(req[r1].id.val)) = 1

-----------------------------------------------------------------------------
(* C13 *)

\* Request slot r is answered 201 CREATED in this step.
AnsweredCreated(r) ==
    /\ req[r].op = "createUser"
    /\ req[r].pc # "done"
    /\ req'[r].pc = "done"
    /\ req'[r].res.code = CREATED

\* C13: the collection changes only in the step that answers a create-account
\* request 201, and then by one document added at its end, the document of that
\* request; every other step (a login, a fetch-profile, a create-account
\* request answered 303, 400 or 500) leaves the collection as it was.
C13_StoreFrame ==
    [][/\ users' # users
          => \E r \in Reqs :
                 /\ AnsweredCreated(r)
                 /\ users' = Append(users, users'[Len(users')])
                 /\ users'[Len(users')]["_id"] = req[r].id
       /\ \A r \in Reqs : AnsweredCreated(r) => Len(users') = Len(users) + 1
      ]_vars

\* A second account was created: its request was answered 201 and its document
\* stands after the one stored before.
C13_Witness ==
    \E r \in Reqs :
        /\ Served(r, "createUser")
        /\ req[r].res.code = CREATED
        /\ Len(users) = 2
        /\ users[2]["_id"] = req[r].id
        /\ users[1]["_id"] # req[r].id

-----------------------------------------------------------------------------
(* C14 *)

\* The request in slot r breaks a precondition of the store operation of its
\* handler: an id or a password that is empty or not a string, no profile.
BreaksPrecondition(r) ==
    LET id == decodeURIComponent(req[r].id)
    IN  CASE req[r].op = "createUser" ->
                 CreateUserInvalid(id, decodeURIComponent(req[r].pw), req[r].body)
          [] req[r].op = "logIn" -> CheckPasswordInvalid(id, Get(req[r].body, "pw"))
          [] req[r].op = "getUser" -> GetUserInvalid(id)
          [] OTHER -> FALSE

\* C14: a request that breaks a precondition of the store is answered by the
\* handler, on receipt, with a client-error status (400, 401), a login whose
\* pw field is not a string included; and no request is answered 500 without a
\* store or hashing step having failed, so the store never rejects a request
\* for its parameters.
C14_InvalidAnsweredAtHandler ==
    \A r \in Reqs :
        /\ BreaksPrecondition(r)
           => /\ req[r].pc = "done"
              /\ req[r].res.code \in {BAD_REQUEST, UNAUTHORIZED}
        /\ (req[r].pc = "done" /\ req[r].failed = "none")
           => req[r].res.code # INTERNAL_SERVER_ERROR

-----------------------------------------------------------------------------
(* C15 *)

\* The tokens of the responses sent in this step.
Minted ==
    {req'[r].res.authToken[1] :
        r \in {q \in Reqs : /\ req[q].pc # "done"
                            /\ req'[q].pc = "done"
                            /\ req'[q].res.authToken # <<>>}}

\* C15: a token is minted only in the response that answers a create-account
\* request 201 or a login 200, and it is createAuthToken of the id of that
\* request; the tokens clients hold are tokens so minted, and the subject of
\* every token minted or held is an id that has a record in the store.
C15_TokensFromSuccess ==
    [][/\ \A r \in Reqs :
              (req[r].pc # "done" /\ req'[r].pc = "done" /\ req'[r].res.authToken # <<>>)
              => /\ \/ req'[r].op = "createUser" /\ req'[r].res.code = CREATED
                    \/ req'[r].op = "logIn" /\ req'[r].res.code = OK
                 /\ req'[r].res.authToken = <<createAuthToken(req'[r].id.val, now)>>
       /\ kept' \subseteq kept \cup Minted
       /\ \A token \in kept' \cup Minted :
              \E i \in 1..Len(users') : users'[i]["_id"] = Str(token.id)
      ]_vars

\* A login was answered 200 with a token the client holds, for an account
\* that has a record.
C15_Witness ==
    \E r \in Reqs, token \in kept :
        /\ Served(r, "logIn")
        /\ req[r].res.code = OK
        /\ req[r].res.authToken = <<token>>
        /\ token.id = req[r].id.val
        /\ Records(token.id) # {}

-----------------------------------------------------------------------------
(* C16 *)

\* C16: a document, once stored, is in the collection in every later state,
\* unchanged; its _pw is the hash of the password of the request that created
\* the account, whatever requests for this or another id follow.
C16_RecordsStay ==
    [][/\ Len(users') >= Len(users)
       /\ \A i \in 1..Len(users) : users'[i] = users[i]
       /\ \A i \in 1..Len(users') :
              LET id == users'[i]["_id"].val
              IN  /\ created'[id] # <<>>
                  /\ bcryptCompare(created'[id][1].password, users'[i]["_pw"].val)
      ]_vars

\* After a second account was created, a login to the first account with the
\* password it was created with is answered 200.
C16_Witness ==
    \E r \in Reqs :
        /\ Len(users) = 2
        /\ Served(r, "logIn")
        /\ Str(req[r].id.val) = users[1]["_id"]
        /\ Get(req[r].body, "pw") = Str(created[req[r].id.val][1].password)
        /\ req[r].res.code = OK

-----------------------------------------------------------------------------
(* C17 *)

\* The find of request slot r settles in this step.
FindSettles(r) ==
    /\ req[r].pc \in {"createFind", "logInFind", "getUserFind"}
    /\ req'[r].pc # req[r].pc

\* C17: against a collection that keeps no key unique, once two documents are
\* stored for an id they stay stored, and every create-account, login and
\* fetch-profile request for that id that reaches the store (a fetch-profile
\* with a token within its lifetime does) is answered 500 when its find
\* settles.
C17_TwoRecordsFatal ==
    [][\A id \in Ids :
          Cardinality(Records(id)) >= 2
          => /\ \A i \in 1..Len(users) : i <= Len(users') /\ users'[i] = users[i]
             /\ \A r \in Reqs :
                    /\ ( /\ req[r].pc = "idle"
                         /\ req'[r].op \in {"createUser", "logIn", "getUser"}
                         /\ req'[r].id = Str(id)
                         /\ req'[r].op = "getUser"
                            => /\ req'[r].header.rest # <<>>
                               /\ Genuine(req'[r].header.rest[1], now) )
                       => req'[r].pc \in {"createFind", "logInFind", "getUserFind"}
                    /\ (FindSettles(r) /\ req[r].id = Str(id))
                       => /\ req'[r].pc = "done"
                          /\ req'[r].res = InternalServerError
      ]_vars

\* Two create-account requests have both inserted, and a later login and a
\* later fetch-profile for the id have both been answered 500.
C17_Witness ==
    \E r1, r2 \in Reqs :
        /\ Cardinality(Records(req[r1].id.val)) = 2
        /\ req[r1].id = req[r2].id
        /\ req[r1].op = "logIn" /\ req[r2].op = "getUser"
        /\ req[r1].failed = "integrity" /\ req[r2].failed = "integrity"
        /\ req[r1].res = InternalServerError
        /\ req[r2].res = InternalServerError

-----------------------------------------------------------------------------
(* C18 *)

\* C18: a create-account request is answered 201 only when no request for its
\* id was answered 201 before: over every order and interleaving of the
\* create-account requests for an id, at most one is told it created the
\* account, and at most one creation token is issued for the id.
C18_OneCreatedPerId ==
    [][\A r \in Reqs :
          AnsweredCreated(r)
          => /\ created[req[r].id.val] = <<>>
             /\ \A r2 \in Reqs \ {r} :
                    ~(req'[r2].op = "createUser" /\ req'[r2].id = req[r].id
                      /\ req'[r2].res.code = CREATED)
      ]_vars

\* Of two create-account requests for one id with different passwords that
\* both found no record, one was answered 201 and the other, now over, was
\* not; the account has the password of the first.
C18_Witness ==
    \E r1, r2 \in Reqs :
        /\ Raced(r1) /\ Raced(r2)
        /\ req[r1].id = req[r2].id
        /\ req[r1].pw # req[r2].pw
        /\ req[r1].pc = "done" /\ req[r1].res.code = CREATED
        /\ req[r2].pc \in {"done", "hung"} /\ req[r2].res.code # CREATED
        /\ created[req[r1].id.val] # <<>>
        /\ Str(created[req[r1].id.val][1].password) = req[r1].pw

====
